---- MODULE Spec2Model ----
(***************************************************************************)
(* Filter-and-aggregation engine of the HR attrition dashboard (app.py).   *)
(* A sidebar widget event starts a run of the script; the run executes the *)
(* script top to bottom and publishes one result after the other, and a    *)
(* widget event that arrives during a run stops it and starts a new one.   *)
(* pc is the position of the run; the KPI and table variables hold what    *)
(* the page shows, which during a run is partly of the previous run.       *)
(* Rates are exact rationals <<numerator, denominator>> in lowest terms.   *)
(***************************************************************************)
EXTENDS Integers, Sequences, FiniteSets

VARIABLES df, departments, job_role_options, job_roles, genders, age_range,
          attrition_filter, filtered_df, total_emp, attrition_count,
          attrition_rate, dept_attr, gender_attr, marital_attr, job_attr,
          level_attr, pc, stopped_runs, widget_state

vars == <<df, departments, job_role_options, job_roles, genders, age_range,
          attrition_filter, filtered_df, total_emp, attrition_count,
          attrition_rate, dept_attr, gender_attr, marital_attr, job_attr,
          level_attr, pc, stopped_runs, widget_state>>

\* Largest number of rows of the small frames explored.
MaxRecords == 3

\* Number of rows of the frames that differ only in how many employees left.
ScenarioRows == 10

\* Bound on the runs a behaviour stops before their end.
MaxStoppedRuns == 1

-----------------------------------------------------------------------------
(* The rows EA.csv may hold (every column the engine reads but the id).    *)

Profiles ==
  << [Department |-> "Research & Development", JobRole |-> "Manager",
      Gender |-> "Female", Age |-> 31, Attrition |-> "No",
      MaritalStatus |-> "Married", JobLevel |-> 1],
     [Department |-> "Research & Development", JobRole |-> "Research Scientist",
      Gender |-> "Female", Age |-> 30, Attrition |-> "Yes",
      MaritalStatus |-> "Single", JobLevel |-> 2],
     [Department |-> "Sales", JobRole |-> "Manager",
      Gender |-> "Male", Age |-> 31, Attrition |-> "Yes",
      MaritalStatus |-> "Married", JobLevel |-> 1],
     [Department |-> "Sales", JobRole |-> "Sales Executive",
      Gender |-> "Male", Age |-> 30, Attrition |-> "No",
      MaritalStatus |-> "Single", JobLevel |-> 2],
     [Department |-> "Sales", JobRole |-> "Sales Executive",
      Gender |-> "Male", Age |-> 32, Attrition |-> "Yes",
      MaritalStatus |-> "Married", JobLevel |-> 2] >>

\* One row of the frame: a profile with its EmployeeNumber.
Row(p, i) ==
  [EmployeeNumber |-> i, Department |-> p.Department, JobRole |-> p.JobRole,
   Gender |-> p.Gender, Age |-> p.Age, Attrition |-> p.Attrition,
   MaritalStatus |-> p.MaritalStatus, JobLevel |-> p.JobLevel]

\* Frames of up to MaxRecords rows: consecutive profiles.
SmallFrames ==
  UNION { { [i \in 1..n |-> Row(Profiles[k + i], i)] :
              k \in 0..(Len(Profiles) - n) } :
          n \in 1..MaxRecords }

\* Frames of ScenarioRows rows of which the first k left the company.
ScenarioFrames ==
  { [i \in 1..ScenarioRows |->
       Row(IF i <= k THEN Profiles[2] ELSE Profiles[1], i)] :
    k \in 0..ScenarioRows }

\* load_data: the frames read_csv may return, rows numbered in file order.
load_data == SmallFrames \cup ScenarioFrames

-----------------------------------------------------------------------------
(* Helpers: Python's string order, sorting, exact rates.                   *)

\* Every category string of the data, in Python's (code point) order.
Lex == << "Female", "Male", "Manager", "Married", "No",
          "Research & Development", "Research Scientist", "Sales",
          "Sales Executive", "Single", "Yes" >>

\* Rank of a string in Python's order; of a job level in numeric order.
StrRank == [s \in {Lex[i] : i \in 1..Len(Lex)} |->
              CHOOSE i \in 1..Len(Lex) : Lex[i] = s]
IntRank == [n \in 1..5 |-> n]

\* sorted(S) under rank: the elements of S in ascending order.
SortedSeq(S, rank) ==
  [i \in 1..Cardinality(S) |->
     CHOOSE x \in S : Cardinality({y \in S : rank[y] < rank[x]}) = i - 1]

RECURSIVE Gcd(_, _)
Gcd(a, b) == IF b = 0 THEN a ELSE Gcd(b, a % b)

\* yes / n * 100 as a fraction in lowest terms (n > 0).
Pct(yes, n) ==
  LET g == Gcd(100 * yes, n) IN << (100 * yes) \div g, n \div g >>

Zero == << 0, 1 >>

RateGeq(a, b) == a[1] * b[2] >= b[1] * a[2]

Column(frame, field) == { frame[i][field] : i \in 1..Len(frame) }

Reverse(s) == [i \in 1..Len(s) |-> s[Len(s) + 1 - i]]

-----------------------------------------------------------------------------
(* Sidebar widgets.                                                        *)

DepartmentOptions(frame) == Column(frame, "Department")

\* options (and default) of the Job Role multiselect for a Department choice
JobRoleOptions(frame, deps) ==
  Column(SelectSeq(frame, LAMBDA r : r.Department \in deps), "JobRole")

GenderOptions(frame) == Column(frame, "Gender")

AttritionOptions(frame) == Column(frame, "Attrition")

age_min(frame) == CHOOSE x \in Column(frame, "Age") :
                    \A y \in Column(frame, "Age") : x <= y

age_max(frame) == CHOOSE x \in Column(frame, "Age") :
                    \A y \in Column(frame, "Age") : x >= y

\* The pairs the Age range slider can deliver: min_value <= lo <= hi <= max_value.
SliderValues(frame) ==
  { rng \in (age_min(frame)..age_max(frame)) \X
            (age_min(frame)..age_max(frame)) : rng[1] <= rng[2] }

\* Job Role widget that returns the selection held before, whatever its options.
JobRoleWidgetKeep(state, options) == job_roles

\* Job Role widget that keeps the still-offered part of the selection held
\* before and selects everything only when nothing is left.
JobRoleWidgetIntersect(state, options) ==
  IF job_roles \cap options # {} THEN job_roles \cap options ELSE options

\* The value st.sidebar.multiselect returns for the Job Role widget declared
\* with the given options (and the same default).  The call passes no key, so
\* Streamlit identifies the widget by its arguments: state maps the option
\* sets whose widget the session holds a value for to that value.  A widget
\* the session holds no value for returns its default, all the options.
JobRoleWidget(state, options) ==
  IF options \in DOMAIN state THEN state[options] ELSE options

-----------------------------------------------------------------------------
(* The filter and the aggregates.                                          *)

\* between() that leaves the upper bound out.
BetweenExclusive(x, rng) == rng[1] <= x /\ x < rng[2]

\* Series.between(lo, hi): both ends included.
Between(x, rng) == rng[1] <= x /\ x <= rng[2]

\* The filter with its result in reverse frame order.
ApplyReversed(frame, deps, roles, gens, rng, attr) ==
  Reverse(SelectSeq(frame, LAMBDA r : /\ r.Department \in deps
                                      /\ r.JobRole \in roles
                                      /\ r.Gender \in gens
                                      /\ Between(r.Age, rng)
                                      /\ r.Attrition \in attr))

\* filtered_df: the rows of the frame that pass the five masks, in frame order.
Apply(frame, deps, roles, gens, rng, attr) ==
  SelectSeq(frame, LAMBDA r : /\ r.Department \in deps
                              /\ r.JobRole \in roles
                              /\ r.Gender \in gens
                              /\ Between(r.Age, rng)
                              /\ r.Attrition \in attr)

YesCount(view) == Len(SelectSeq(view, LAMBDA r : r.Attrition = "Yes"))

\* The rate with the quotient truncated before it is scaled.
AttritionRateFloorDiv(count, total) ==
  IF total # 0 THEN << (count \div total) * 100, 1 >> ELSE Zero

AttritionRate(count, total) == IF total # 0 THEN Pct(count, total) ELSE Zero

\* Grouping that emits a row for every value of the whole frame, members or not.
GroupRateAllKeys(view, field, rank) ==
  LET keys == SortedSeq(Column(df, field), rank)
      grp(k) == SelectSeq(view, LAMBDA r : r[field] = k)
  IN  [i \in 1..Len(keys) |->
         [key |-> keys[i],
          AttritionRate |-> AttritionRate(YesCount(grp(keys[i])), Len(grp(keys[i])))]]

\* groupby(field)["Attrition"].apply(mean * 100).reset_index(): one row per
\* value of field present in the view, keys ascending.
GroupRate(view, field, rank) ==
  LET keys == SortedSeq(Column(view, field), rank)
      grp(k) == SelectSeq(view, LAMBDA r : r[field] = k)
  IN  [i \in 1..Len(keys) |->
         [key |-> keys[i],
          AttritionRate |-> Pct(YesCount(grp(keys[i])), Len(grp(keys[i])))]]

Perms(n) == { p \in [1..n -> 1..n] : \A i, j \in 1..n : i # j => p[i] # p[j] }

\* A table left in group order.
SortValuesNone(tbl) == { tbl }

\* sort_values(by="AttritionRate", ascending=False): the default sort is not
\* stable, so rows of equal rate may come out in any order.
SortValuesDesc(tbl) ==
  { [i \in 1..Len(tbl) |-> tbl[p[i]]] : p \in
      { q \in Perms(Len(tbl)) :
          \A i \in 1..(Len(tbl) - 1) :
             RateGeq(tbl[q[i]].AttritionRate, tbl[q[i + 1]].AttritionRate) } }

\* pivot_table(index, columns, aggfunc="count"): a count for the pairs that
\* occur, nothing (NaN) for the others.
PivotCount(view, rowField, colField) ==
  [ p \in { <<view[i][rowField], view[i][colField]>> : i \in 1..Len(view) } |->
      Len(SelectSeq(view, LAMBDA r : r[rowField] = p[1] /\ r[colField] = p[2])) ]

\* A pivot whose empty cells are left empty.
FillNaNone(cells, rows, cols) == cells

\* .fillna(0) over the pivot's index x columns.
FillNa(cells, rows, cols) ==
  [ p \in rows \X cols |-> IF p \in DOMAIN cells THEN cells[p] ELSE 0 ]

\* marital_attr: index and columns are the values present in the view.
MaritalPivot(view) ==
  [index |-> Column(view, "MaritalStatus"),
   columns |-> Column(view, "Attrition"),
   cell |-> FillNa(PivotCount(view, "MaritalStatus", "Attrition"),
                   Column(view, "MaritalStatus"), Column(view, "Attrition"))]

-----------------------------------------------------------------------------
(* The run of the script, statement group by statement group.  Every group *)
(* ends in a call of the Streamlit runtime, where the run can be stopped.  *)

\* Positions of a run, in script order; "idle" is the run ended.
Positions == << "sidebar", "filter", "total", "count", "rate", "dept",
                "gender", "marital", "job", "level", "charts", "idle" >>

PcIndex(p) == CHOOSE i \in 1..Len(Positions) : Positions[i] = p

\* The run has executed the statement group at position p.
Done(p) == PcIndex(pc) > PcIndex(p)

widgets == <<departments, genders, age_range, attrition_filter>>

published == <<total_emp, attrition_count, attrition_rate, dept_attr,
               gender_attr, marital_attr, job_attr, level_attr>>

\* Lines 15-44: the sidebar widgets are declared again; the Job Role
\* multiselect gets the job roles of the selected departments as options, and
\* the session holds its value from then on.
Sidebar ==
  /\ pc = "sidebar"
  /\ job_role_options' = JobRoleOptions(df, departments)
  /\ job_roles' = JobRoleWidget(widget_state, JobRoleOptions(df, departments))
  /\ widget_state' =
       [S \in DOMAIN widget_state \cup {job_role_options'} |->
          IF S = job_role_options' THEN job_roles' ELSE widget_state[S]]
  /\ pc' = "filter"
  /\ UNCHANGED <<df, stopped_runs, widgets, filtered_df, published>>

\* Lines 46-53.
Filter ==
  /\ pc = "filter"
  /\ filtered_df' = Apply(df, departments, job_roles, genders, age_range,
                          attrition_filter)
  /\ pc' = "total"
  /\ UNCHANGED <<df, stopped_runs, widgets, job_role_options, job_roles,
                 widget_state, published>>

\* Lines 60-63.
Total ==
  /\ pc = "total"
  /\ total_emp' = Len(filtered_df)
  /\ pc' = "count"
  /\ UNCHANGED <<df, stopped_runs, widgets, job_role_options, job_roles,
                 widget_state, filtered_df,
                 attrition_count, attrition_rate, dept_attr, gender_attr,
                 marital_attr, job_attr, level_attr>>

\* Lines 65-68.
Count ==
  /\ pc = "count"
  /\ attrition_count' = YesCount(filtered_df)
  /\ pc' = "rate"
  /\ UNCHANGED <<df, stopped_runs, widgets, job_role_options, job_roles,
                 widget_state, filtered_df,
                 total_emp, attrition_rate, dept_attr, gender_attr,
                 marital_attr, job_attr, level_attr>>

\* Lines 70-73.
Rate ==
  /\ pc = "rate"
  /\ attrition_rate' = AttritionRate(attrition_count, total_emp)
  /\ pc' = "dept"
  /\ UNCHANGED <<df, stopped_runs, widgets, job_role_options, job_roles,
                 widget_state, filtered_df,
                 total_emp, attrition_count, dept_attr, gender_attr,
                 marital_attr, job_attr, level_attr>>

\* Lines 94-107.
Dept ==
  /\ pc = "dept"
  /\ dept_attr' \in SortValuesDesc(GroupRate(filtered_df, "Department", StrRank))
  /\ pc' = "gender"
  /\ UNCHANGED <<df, stopped_runs, widgets, job_role_options, job_roles,
                 widget_state, filtered_df,
                 total_emp, attrition_count, attrition_rate, gender_attr,
                 marital_attr, job_attr, level_attr>>

\* Lines 113-125.
Gender ==
  /\ pc = "gender"
  /\ gender_attr' = GroupRate(filtered_df, "Gender", StrRank)
  /\ pc' = "marital"
  /\ UNCHANGED <<df, stopped_runs, widgets, job_role_options, job_roles,
                 widget_state, filtered_df,
                 total_emp, attrition_count, attrition_rate, dept_attr,
                 marital_attr, job_attr, level_attr>>

\* Lines 143-151.
Marital ==
  /\ pc = "marital"
  /\ marital_attr' = MaritalPivot(filtered_df)
  /\ pc' = "job"
  /\ UNCHANGED <<df, stopped_runs, widgets, job_role_options, job_roles,
                 widget_state, filtered_df,
                 total_emp, attrition_count, attrition_rate, dept_attr,
                 gender_attr, job_attr, level_attr>>

\* Lines 157-170.
Job ==
  /\ pc = "job"
  /\ job_attr' \in SortValuesDesc(GroupRate(filtered_df, "JobRole", StrRank))
  /\ pc' = "level"
  /\ UNCHANGED <<df, stopped_runs, widgets, job_role_options, job_roles,
                 widget_state, filtered_df,
                 total_emp, attrition_count, attrition_rate, dept_attr,
                 gender_attr, marital_attr, level_attr>>

\* Lines 172-180: the last table.
Level ==
  /\ pc = "level"
  /\ level_attr' = GroupRate(filtered_df, "JobLevel", IntRank)
  /\ pc' = "charts"
  /\ UNCHANGED <<df, stopped_runs, widgets, job_role_options, job_roles,
                 widget_state, filtered_df,
                 total_emp, attrition_count, attrition_rate, dept_attr,
                 gender_attr, marital_attr, job_attr>>

\* Lines 181-197: a caption and two charts drawn from columns of filtered_df
\* that no KPI or table reads; then the script, and with it the run, ends.
\* At the end of a run Streamlit drops the values of the widgets the run did
\* not declare; a run stopped before its end drops nothing.
Charts ==
  /\ pc = "charts"
  /\ pc' = "idle"
  /\ widget_state' = [S \in {job_role_options} |-> widget_state[S]]
  /\ UNCHANGED <<df, stopped_runs, widgets, job_role_options, job_roles, filtered_df,
                 published>>

Step ==
  \/ Sidebar
  \/ Filter
  \/ Total
  \/ Count
  \/ Rate
  \/ Dept
  \/ Gender
  \/ Marital
  \/ Job
  \/ Level
  \/ Charts

\* A widget event that leaves the script where it is.
RerunStays ==
  /\ pc' = pc
  /\ filtered_df' = filtered_df
  /\ UNCHANGED <<df, stopped_runs, published>>

\* A widget event: the run in progress, if any, is stopped and a new run
\* starts at the top of the script with an empty namespace (filtered_df is
\* unbound until line 47; it is held as the empty frame and not read before).
\* What the page shows stays as it is.  stopped_runs counts the runs stopped
\* before their end; the first conjunct caps it at MaxStoppedRuns, which
\* Streamlit does not.
Rerun ==
  /\ pc # "idle" => stopped_runs < MaxStoppedRuns
  /\ stopped_runs' = IF pc = "idle" THEN stopped_runs ELSE stopped_runs + 1
  /\ pc' = "sidebar"
  /\ filtered_df' = <<>>
  /\ UNCHANGED <<df, published>>

SetDepartments(D) ==
  /\ D # departments
  /\ departments' = D
  /\ Rerun
  /\ UNCHANGED <<job_role_options, job_roles, widget_state,
                 genders, age_range, attrition_filter>>

\* The selection is made among the options the widget was last declared with.
SetJobRoles(J) ==
  /\ J # job_roles
  /\ job_roles' = J
  /\ widget_state' = [widget_state EXCEPT ![job_role_options] = J]
  /\ Rerun
  /\ UNCHANGED <<departments, job_role_options, genders, age_range, attrition_filter>>

SetGenders(G) ==
  /\ G # genders
  /\ genders' = G
  /\ Rerun
  /\ UNCHANGED <<departments, job_role_options, job_roles, widget_state,
                 age_range, attrition_filter>>

SetAgeRange(lo, hi) ==
  /\ <<lo, hi>> # age_range
  /\ age_range' = <<lo, hi>>
  /\ Rerun
  /\ UNCHANGED <<departments, job_role_options, job_roles, widget_state,
                 genders, attrition_filter>>

SetAttritionStatuses(A) ==
  /\ A # attrition_filter
  /\ attrition_filter' = A
  /\ Rerun
  /\ UNCHANGED <<departments, job_role_options, job_roles, widget_state,
                 genders, age_range>>

Event ==
  \/ \E D \in SUBSET DepartmentOptions(df) : SetDepartments(D)
  \/ \E J \in SUBSET job_role_options : SetJobRoles(J)
  \/ \E G \in SUBSET GenderOptions(df) : SetGenders(G)
  \/ \E rng \in SliderValues(df) : SetAgeRange(rng[1], rng[2])
  \/ \E A \in SUBSET AttritionOptions(df) : SetAttritionStatuses(A)

\* The page once the first run, with every widget at its default, has ended.
Init ==
  /\ df \in load_data
  /\ departments = DepartmentOptions(df)
  /\ job_role_options = JobRoleOptions(df, departments)
  /\ job_roles = job_role_options
  /\ genders = GenderOptions(df)
  /\ age_range = << age_min(df), age_max(df) >>
  /\ attrition_filter = AttritionOptions(df)
  /\ filtered_df = Apply(df, departments, job_roles, genders, age_range, attrition_filter)
  /\ total_emp = Len(filtered_df)
  /\ attrition_count = YesCount(filtered_df)
  /\ attrition_rate = AttritionRate(attrition_count, total_emp)
  /\ dept_attr \in SortValuesDesc(GroupRate(filtered_df, "Department", StrRank))
  /\ gender_attr = GroupRate(filtered_df, "Gender", StrRank)
  /\ marital_attr = MaritalPivot(filtered_df)
  /\ job_attr \in SortValuesDesc(GroupRate(filtered_df, "JobRole", StrRank))
  /\ level_attr = GroupRate(filtered_df, "JobLevel", IntRank)
  /\ pc = "idle"
  /\ stopped_runs = 0
  /\ widget_state = [S \in {job_role_options} |-> job_roles]

\* Widget events arrive at any time, also while a run is in progress.
Next ==
  \/ Event
  \/ Step

\* The page of a frame of up to MaxRecords rows.
InitSmall == Init /\ df \in SmallFrames

\* The page of a frame of ScenarioRows rows.
InitScenario == Init /\ df \in ScenarioFrames

Spec == InitSmall /\ [][Next]_vars

SpecScenario == InitScenario /\ [][Next]_vars

-----------------------------------------------------------------------------
(* Properties.                                                             *)

\* A row passes the five predicates of the current widget values.
Passes(r) ==
  /\ r.Department \in departments
  /\ r.JobRole \in job_roles
  /\ r.Gender \in genders
  /\ age_range[1] <= r.Age
  /\ r.Age <= age_range[2]
  /\ r.Attrition \in attrition_filter

Rows(frame) == { frame[i] : i \in 1..Len(frame) }

InView(r) == r \in Rows(filtered_df)

Members(field, k) == { i \in 1..Len(filtered_df) : filtered_df[i][field] = k }

Leavers(field, k) ==
  { i \in Members(field, k) : filtered_df[i].Attrition = "Yes" }

\* tbl has one row for each value of field in the view, with the group's rate.
RateTableOf(tbl, field) ==
  /\ { tbl[i].key : i \in 1..Len(tbl) } = { filtered_df[i][field] : i \in 1..Len(filtered_df) }
  /\ \A i, j \in 1..Len(tbl) : i # j => tbl[i].key # tbl[j].key
  /\ \A i \in 1..Len(tbl) :
       /\ Members(field, tbl[i].key) # {}
       /\ tbl[i].AttritionRate[1] * Cardinality(Members(field, tbl[i].key))
            = 100 * Cardinality(Leavers(field, tbl[i].key)) * tbl[i].AttritionRate[2]

RateDescending(tbl) ==
  \A i \in 1..(Len(tbl) - 1) :
     tbl[i].AttritionRate[1] * tbl[i + 1].AttritionRate[2]
       >= tbl[i + 1].AttritionRate[1] * tbl[i].AttritionRate[2]

KeyAscending(tbl, rank) ==
  \A i \in 1..(Len(tbl) - 1) : rank[tbl[i].key] < rank[tbl[i + 1].key]

\* The run has just declared the sidebar widgets again.
SidebarStep == pc = "sidebar" /\ pc' = "filter"

\* What the page shows is what the script computes for the current widget values.
BundleCurrent ==
  LET view == SelectSeq(df, Passes)
  IN  /\ total_emp = Len(view)
      /\ attrition_count = YesCount(view)
      /\ attrition_rate = AttritionRate(YesCount(view), Len(view))
      /\ dept_attr \in SortValuesDesc(GroupRate(view, "Department", StrRank))
      /\ gender_attr = GroupRate(view, "Gender", StrRank)
      /\ marital_attr = MaritalPivot(view)
      /\ job_attr \in SortValuesDesc(GroupRate(view, "JobRole", StrRank))
      /\ level_attr = GroupRate(view, "JobLevel", IntRank)

\* The slider's value stays within the ages of the data, lower end first.
AgeRangeInBounds ==
  /\ age_min(df) <= age_range[1]
  /\ age_range[1] <= age_range[2]
  /\ age_range[2] <= age_max(df)

\* C1: once a run has filtered, a row of the frame is in filtered_df if and
\* only if it passes all five predicates (Age bounds inclusive), and every
\* row of filtered_df is a row of the frame.
C1_FilterExact ==
  Done("filter") =>
    /\ \A i \in 1..Len(df) : InView(df[i]) <=> Passes(df[i])
    /\ Rows(filtered_df) \subseteq Rows(df)

\* A view that keeps a row whose Age is the upper end of the range and drops
\* another row.
C1_Witness ==
  /\ Done("filter")
  /\ \E r \in Rows(filtered_df) : r.Age = age_range[2]
  /\ Rows(filtered_df) # Rows(df)
  /\ age_range[1] # age_range[2]

\* The job roles of the rows whose Department is selected.
RolesOfSelected ==
  { df[i].JobRole : i \in { j \in 1..Len(df) : df[j].Department \in departments } }

\* C2 as stated: in every state the selected job roles are among the offered
\* ones and the offered ones are exactly the job roles of the rows whose
\* Department is selected.
C2_Original ==
  /\ job_roles \subseteq job_role_options
  /\ job_role_options = RolesOfSelected

\* C2 amended: the selected job roles are always among the offered ones; the
\* offered ones are exactly the job roles of the rows whose Department is
\* selected from the moment the run has declared the sidebar.
C2_JobRolesOffered ==
  /\ job_roles \subseteq job_role_options
  /\ Done("sidebar") => job_role_options = RolesOfSelected

\* Part of the departments selected, part of their job roles selected.
C2_Witness ==
  /\ Done("sidebar")
  /\ departments # {}
  /\ departments # Column(df, "Department")
  /\ job_role_options # Column(df, "JobRole")
  /\ job_roles # {}
  /\ job_roles # job_role_options

\* A Department change has left a job role selected that no row of the
\* selected departments has; the run has not declared the sidebar yet.
C2_Transient ==
  /\ pc = "sidebar"
  /\ job_roles # {}
  /\ job_roles \cap RolesOfSelected = {}
  /\ RolesOfSelected # {}

\* C3 as stated: when the offered job roles change, the selection becomes its
\* intersection with the new options, or all of them when that is empty.
C3_Original ==
  [][(SidebarStep /\ job_role_options' # job_role_options) =>
       job_roles' = IF job_roles \cap job_role_options' # {}
                    THEN job_roles \cap job_role_options'
                    ELSE job_role_options']_vars

\* C3 amended: declaring the sidebar leaves the job role selection as it is
\* when the offered job roles are the same as before.  When they changed, the
\* selection becomes all the offered job roles if no run was stopped before
\* its end; after a stopped run it is all of them or the selection a stopped
\* run left for these very options.  Once a run has ended no selection for
\* other options is left.
C3_ResetOnNewOptions ==
  /\ [][SidebarStep =>
          /\ job_role_options' = job_role_options => job_roles' = job_roles
          /\ (job_role_options' # job_role_options /\ stopped_runs = 0) =>
               job_roles' = job_role_options'
          /\ (job_role_options' # job_role_options /\ job_roles' # job_role_options') =>
               /\ job_role_options' \in DOMAIN widget_state
               /\ job_roles' = widget_state[job_role_options']]_vars
  /\ [](pc = "idle" => DOMAIN widget_state = {job_role_options})

\* No run was stopped; the sidebar has just been declared for part of the
\* departments and every offered job role is selected, while the page still
\* shows the one job role of the previous run, which is among them.
C3_Witness ==
  /\ pc = "filter"
  /\ stopped_runs = 0
  /\ departments # Column(df, "Department")
  /\ job_role_options # Column(df, "JobRole")
  /\ Cardinality(job_role_options) >= 2
  /\ job_roles = job_role_options
  /\ Len(job_attr) = 1
  /\ job_attr[1].key \in job_role_options

\* After a stopped run the sidebar has just been declared with options the
\* session held a selection for, and that selection, not all the options, is
\* selected.
C3_StoredSelection ==
  /\ pc = "filter"
  /\ stopped_runs >= 1
  /\ Cardinality(DOMAIN widget_state) >= 2
  /\ job_roles # job_role_options

\* C4: once a run has published the rate, it is leavers / rows * 100 of the
\* view, and exactly 0 when the view is empty.
C4_AttritionRate ==
  Done("rate") =>
    /\ total_emp = Len(filtered_df)
    /\ attrition_count =
         Cardinality({ i \in 1..Len(filtered_df) : filtered_df[i].Attrition = "Yes" })
    /\ total_emp > 0 =>
         attrition_rate[1] * total_emp = 100 * attrition_count * attrition_rate[2]
    /\ total_emp = 0 => attrition_rate = << 0, 1 >>

\* A run has just published the rate of 10 rows with 3 leavers: 30.
C4_Witness ==
  /\ pc = "dept"
  /\ total_emp = 10
  /\ attrition_count = 3
  /\ attrition_rate = << 30, 1 >>

\* The empty view with rate 0.
C4_EmptyView ==
  /\ Done("rate")
  /\ Len(filtered_df) = 0
  /\ attrition_rate = << 0, 1 >>

\* C5: once a run has published a rate table, the table has one row for
\* exactly the group values present in the view, each with the rate
\* leavers / members * 100; an empty view gives empty tables.
C5_GroupRows ==
  /\ Done("dept") => RateTableOf(dept_attr, "Department")
  /\ Done("gender") => RateTableOf(gender_attr, "Gender")
  /\ Done("job") => RateTableOf(job_attr, "JobRole")
  /\ Done("level") => RateTableOf(level_attr, "JobLevel")
  /\ (Done("level") /\ Len(filtered_df) = 0) =>
       /\ dept_attr = << >>
       /\ gender_attr = << >>
       /\ job_attr = << >>
       /\ level_attr = << >>

\* A run has ended on a view that lacks a department of the frame and holds
\* two job roles.
C5_Witness ==
  /\ Done("level")
  /\ Column(filtered_df, "Department") # Column(df, "Department")
  /\ Len(dept_attr) >= 1
  /\ Len(job_attr) >= 2

\* C6 as stated: the pivot has a cell for every marital status of the view
\* and every Attrition value of the unfiltered frame.
C6_Original ==
  Done("marital") =>
    \A m \in marital_attr.index : \A a \in Column(df, "Attrition") :
       << m, a >> \in DOMAIN marital_attr.cell

\* C6 amended: the pivot has a cell for exactly the pairs of a marital status
\* and an Attrition value that are both present in the view, holding the
\* number of rows with that pair, 0 when there is none.
C6_PivotOverView ==
  Done("marital") =>
    /\ marital_attr.index = { filtered_df[i].MaritalStatus : i \in 1..Len(filtered_df) }
    /\ marital_attr.columns = { filtered_df[i].Attrition : i \in 1..Len(filtered_df) }
    /\ DOMAIN marital_attr.cell = marital_attr.index \X marital_attr.columns
    /\ \A p \in DOMAIN marital_attr.cell :
         marital_attr.cell[p] =
           Cardinality({ i \in 1..Len(filtered_df) :
                           /\ filtered_df[i].MaritalStatus = p[1]
                           /\ filtered_df[i].Attrition = p[2] })

\* A run has just published a pivot with a cell filled with 0.
C6_Witness ==
  /\ pc = "job"
  /\ \E p \in DOMAIN marital_attr.cell : marital_attr.cell[p] = 0

\* C8 as stated: what the page shows is never stale or mixed: in every state
\* it is the bundle of the current widget values.
C8_Original == BundleCurrent

\* C8 amended: whenever the run has ended, what the page shows is the bundle
\* of the one view filtered by the current widget values.
C8_IdleBundleCurrent == pc = "idle" => BundleCurrent

\* A run has ended after an earlier one was stopped, on a view that is
\* neither empty nor the whole frame.
C8_Witness ==
  /\ pc = "idle"
  /\ stopped_runs >= 1
  /\ total_emp > 0
  /\ total_emp < Len(df)

\* C9: no step changes the frame, and once a run has filtered, filtered_df is
\* the sequence of the frame's passing rows in frame order, a function of the
\* frame and the widget values alone.
C9_FrameUntouched ==
  /\ [][df' = df]_vars
  /\ [](Done("filter") => filtered_df = SelectSeq(df, Passes))
  /\ [](Done("filter") =>
          \A i, j \in 1..Len(filtered_df) :
             i < j => filtered_df[i].EmployeeNumber < filtered_df[j].EmployeeNumber)

\* A view of two rows or more that is not the whole frame.
C9_Witness ==
  /\ Done("filter")
  /\ Len(filtered_df) >= 2
  /\ Len(filtered_df) < Len(df)

\* C10: the Department and JobRole tables are in descending order of rate;
\* the JobLevel table is in ascending order of level and the Gender table in
\* group (ascending key) order, whatever the rates.
C10_Order ==
  /\ RateDescending(dept_attr)
  /\ RateDescending(job_attr)
  /\ KeyAscending(level_attr, IntRank)
  /\ KeyAscending(gender_attr, StrRank)

\* A run has just published the Department and Gender tables: the sort moved
\* a department up, and the Gender table is not in descending order of rate.
C10_Witness ==
  /\ pc = "marital"
  /\ Len(dept_attr) = 2
  /\ StrRank[dept_attr[1].key] > StrRank[dept_attr[2].key]
  /\ Len(gender_attr) = 2
  /\ ~ RateDescending(gender_attr)

====
